---- MODULE Spec2Model ----
(***************************************************************************)
(* Marketing asset-generation scripts of MidTerm: the multi-clip workflow  *)
(* (docs/marketing/test_multiclip_workflow.py), the single-clip script     *)
(* (Marketing/generate_video.py), the advanced workflow                    *)
(* (Marketing/test_advanced_workflow.py) and the four single-step scripts  *)
(* (test_video_only.py, test_video_v2.py, test_step2_only.py,              *)
(* test_screen_composite.py).  One run of one script is one behaviour; the *)
(* generative service, the credential file, the disk and ffmpeg are the    *)
(* environment, whose answers are chosen with \E.                          *)
(***************************************************************************)
EXTENDS Integers, Sequences, FiniteSets, TLC

\* ---------------------------------------------------------------- bounds
\* distinct byte contents the service can return (0 stands for "no file")
MaxData == 2
\* largest number of "not done" answers the service gives to status queries
MaxPolls == 2
\* largest number of reference assets loaded from --assets
MaxAssets == 1
\* svcK of an operation the service never reports done
Never == -1
\* the counters of a poll loop count up to PollCap and stay there: only the loop
\* on an operation that is never done gets that far
PollCap == MaxPolls + 2

\* ------------------------------------------------------ program constants
\* len(keyframes) in main
NumKeyframes == 4
\* len(clips) in main
NumClips == 3

Data == 1..MaxData
ErrPayloads == {"err_quota", "err_policy"}
Stderrs == {"stderr_bad_input", "stderr_codec_mismatch"}

\* len(models_to_try) in test_video_only.py
NumModels == 3
\* generate_content calls of test_screen_composite
NumCompositeTests == 3

Scripts == {"multiclip", "generate_video", "advanced", "video_only", "video_v2",
            "step2_only", "screen_composite"}

\* f"{keyframe.name}.png" for the keyframes defined in main
KfName == <<"kf1_frustrated.png", "kf2_idea.png", "kf3_typing.png", "kf4_celebrating.png">>
\* f"{clip.name}.mp4" for the clips defined in main
ClipName == <<"clip1_frustration_to_idea.mp4", "clip2_idea_to_typing.mp4",
              "clip3_typing_to_celebration.mp4">>
FinalName == "final_midterm_discovery.mp4"
\* sys.argv[2] default of generate_video.py
OutputVideo == "output_video.mp4"
Step1Name == "step1_sitting.png"
Step2Name == "step2_standing.png"
Step3Name == "step3_dance_transition.mp4"

Step2V2Name == "step2_standing_v2.png"
Step3V2Name == "step3_dance_v2.mp4"
Screenshot == "sc1.png"
CompositeName == <<"test1_direct_composite.png", "test2_over_shoulder.png",
                   "test3_monitor_only.png">>

FileNames == {KfName[i] : i \in 1..NumKeyframes} \cup {ClipName[i] : i \in 1..NumClips}
             \cup {FinalName, OutputVideo, Step1Name, Step2Name, Step3Name}
             \cup {Step2V2Name, Step3V2Name, Screenshot}
             \cup {CompositeName[i] : i \in 1..NumCompositeTests}

\* files a script expects to find on disk, left there by an earlier run
InputFiles(sc) ==
  IF sc = "video_only" THEN {Step1Name, Step2Name}
  ELSE IF sc = "video_v2" THEN {Step1Name, Step2V2Name}
  ELSE IF sc = "step2_only" THEN {Step1Name}
  ELSE IF sc = "screen_composite" THEN {Screenshot}
  ELSE {}

\* operations a run can submit: one per clip, or one per candidate model
OpIds == (1..NumClips) \cup (1..NumModels)

None == "None"

\* ------------------------------------------------- values of the service
\* parts of a generate_content response
TextPart == [kind |-> "text", data |-> 0]
ImagePart(d) == [kind |-> "image", data |-> d]
ContentResponses == {<<>>, <<TextPart>>}
                    \cup {<<ImagePart(d)>> : d \in Data}
                    \cup {<<TextPart, ImagePart(d)>> : d \in Data}

\* video.video_bytes: absent, raw bytes, or a base64 string of the bytes
NoBytes == [kind |-> "none", data |-> 0]
RawBytes(d) == [kind |-> "bytes", data |-> d]
B64Str(d) == [kind |-> "str", data |-> d]
\* isinstance(video_bytes, str) -> base64.b64decode(video_bytes)
b64decode(vb) == [kind |-> "bytes", data |-> vb.data]

Video(vb, uri) == [video_bytes |-> vb, uri |-> uri]
Videos == {Video(RawBytes(d), "") : d \in Data} \cup {Video(B64Str(d), "") : d \in Data}
          \cup {Video(RawBytes(d), "gs://bucket/video") : d \in Data}
          \cup {Video(NoBytes, "gs://bucket/video"), Video(NoBytes, "")}

\* response.generated_images of generate_images and edit_image
ImageLists == {<<>>} \cup {<<d>> : d \in Data}

\* a finished or unfinished long-running operation as the client sees it
PendingOp == [done |-> FALSE, response |-> FALSE, videos |-> <<>>, error |-> ""]
FailedOp(e) == [done |-> TRUE, response |-> FALSE, videos |-> <<>>, error |-> e]
SucceededOp(vs) == [done |-> TRUE, response |-> TRUE, videos |-> vs, error |-> ""]
FinalOps == {FailedOp(e) : e \in ErrPayloads} \cup {SucceededOp(<<>>)}
            \cup {SucceededOp(<<v>>) : v \in Videos}

NoFrame == [name |-> None, data |-> 0]
NoKfRequest == [sent |-> FALSE, assets |-> 0, refs |-> <<>>, prompt |-> 0]
NoClipRequest == [sent |-> FALSE, first |-> NoFrame, last |-> NoFrame, prompt |-> 0]
NoListFile == [exists |-> FALSE, lines |-> <<>>]
NoResult == [returncode |-> -1, stderr |-> ""]

VARIABLES
  script,        \* which script this run executes
  projectSet,    \* VERTEX_AI_PROJECT_ID is set
  saPath,        \* VERTEX_AI_SERVICE_ACCOUNT_JSON: "unset", "missing" (no such file), "valid"
  adcProject,    \* application-default credentials exist and name a project
  assetParts,    \* number of asset files given with --assets that exist
  pc,            \* position of the run
  cur,           \* loop index: keyframe or clip being worked on (1-based)
  exitStatus,    \* -1 while running, then the process exit status
  console,       \* error and warning lines printed, with the payload they carry
  disk,          \* file name -> content (0: no such file)
  listFile,      \* clips.txt, the ffmpeg manifest
  manifest,      \* the lines concatenate_clips wrote to clips.txt (kept when it is removed)
  kfPath,        \* KeyFrame.path of every keyframe
  reference,     \* main's local `reference`
  kfRequests,    \* generate_content call issued for each keyframe
  kfAnswer,      \* what the service answered to it: "image", "no_image", "raise"
  kfBytes,       \* image bytes the service generated for each keyframe (0: none)
  clipRequests,  \* generate_videos call issued for each clip (advanced workflow: entry 1)
  operation,     \* the `operation` object of the call in progress
  poll_count,    \* the `poll_count` local of the call in progress
  queries,       \* client.operations.get calls of the call in progress
  sleeps,        \* time.sleep(15) calls of the call in progress
  svcK,          \* service: "not done" answers it gives to this operation
  svcLeft,       \* service: "not done" answers still to give
  svcFinal,      \* service: the finished operation it reported for this call
  opState,       \* lifecycle of the operation submitted for each clip
  clip_paths,    \* main's `clip_paths`
  final_video,   \* main's `final_video`
  concatCalls,   \* calls of concatenate_clips
  ffmpegRuns,    \* subprocess.run invocations of ffmpeg
  result,        \* concatenate_clips' `result`: returncode (-1: not run) and stderr
  requests,      \* generation requests sent to the service in this run, in order
  base_image,    \* advanced workflow: main's `base_image`
  variation_image, \* advanced workflow: main's `variation_image`
  video,         \* advanced workflow: main's `video`
  statusQueried  \* operations that received at least one status query

vars == <<script, projectSet, saPath, adcProject, assetParts, pc, cur, exitStatus, console, disk,
          listFile, manifest, kfPath, reference, kfRequests, kfAnswer, kfBytes, result,
          clipRequests, operation,
          poll_count,
          queries, sleeps, svcK, svcLeft, svcFinal, opState, clip_paths, final_video,
          concatCalls, ffmpegRuns, requests, base_image, variation_image, video,
          statusQueried>>

envVars == <<script, projectSet, saPath, adcProject, assetParts>>
pollVars == <<operation, poll_count, queries, sleeps, svcK, svcLeft, svcFinal>>
advVars == <<base_image, variation_image, video>>
mcOther == <<kfPath, reference, kfRequests, kfAnswer, kfBytes, result, clip_paths, final_video,
             listFile, manifest, concatCalls, ffmpegRuns>>
mcVars == <<mcOther, clipRequests>>

Request(api, item) == [api |-> api, item |-> item]
Msg(text, payload) == [text |-> text, payload |-> payload]

Init ==
  /\ script \in Scripts
  /\ projectSet \in BOOLEAN
  /\ saPath \in {"unset", "missing", "valid"}
  /\ adcProject \in (IF InputFiles(script) # {} /\ script # "screen_composite"
                        THEN BOOLEAN ELSE {FALSE})
  /\ assetParts \in (IF script = "multiclip" THEN 0..MaxAssets ELSE {0})
  /\ pc = "start"
  /\ cur = 0
  /\ exitStatus = -1
  /\ console = {}
  /\ \E present \in SUBSET InputFiles(script) :
       disk = [f \in FileNames |-> IF f \in present THEN 1 ELSE 0]
  /\ listFile = NoListFile
  /\ manifest = <<>>
  /\ kfPath = [i \in 1..NumKeyframes |-> None]
  /\ reference = None
  /\ kfRequests = [i \in 1..NumKeyframes |-> NoKfRequest]
  /\ kfAnswer = [i \in 1..NumKeyframes |-> "none"]
  /\ kfBytes = [i \in 1..NumKeyframes |-> 0]
  /\ result = NoResult
  /\ clipRequests = [i \in 1..NumClips |-> NoClipRequest]
  /\ operation = PendingOp
  /\ poll_count = 0
  /\ queries = 0
  /\ sleeps = 0
  /\ svcK = 0
  /\ svcLeft = 0
  /\ svcFinal = PendingOp
  /\ opState = [i \in OpIds |-> "NONE"]
  /\ clip_paths = <<>>
  /\ final_video = None
  /\ concatCalls = 0
  /\ ffmpegRuns = 0
  /\ requests = <<>>
  /\ base_image = None
  /\ variation_image = None
  /\ video = None
  /\ statusQueried = {}

\* sys.exit(1), or an exception nobody catches: the interpreter prints it and exits 1
Exit1(text, payload) ==
  /\ pc' = "exited"
  /\ exitStatus' = 1
  /\ console' = console \cup {Msg(text, payload)}


\* ------------------------------------------------------------ credentials
\* credentials that are never read from the file
from_service_account_file_Unread == "ok"

\* Credentials.from_service_account_file(service_account_path, ...): opens the
\* file; a path that is None or names no file raises
from_service_account_file == IF saPath = "valid" THEN "ok" ELSE "raise"

\* setup_image_client / setup_video_client of the multi-clip workflow and
\* setup_client of the advanced workflow: environment check, then credentials
setup_client ==
  IF ~projectSet \/ saPath = "unset" THEN "exit" ELSE from_service_account_file

\* genai.Client(vertexai=True, project=project_id, ...) in the scripts that do
\* not check project_id: without a project the library asks the
\* application-default credentials for one and raises when there is none
client_without_check == IF projectSet \/ adcProject THEN "ok" ELSE "raise"

\* the scripts that go straight from os.environ.get to the credentials
setup_unchecked ==
  IF from_service_account_file = "raise" THEN "raise" ELSE client_without_check

\* ------------------------------------------------- the multi-clip workflow
\* main up to the keyframe loop: assets, both clients, output directory
mc_setup ==
  /\ script = "multiclip"
  /\ pc = "start"
  /\ IF setup_client = "exit"
       THEN /\ Exit1("ERROR: Set VERTEX_AI_PROJECT_ID and VERTEX_AI_SERVICE_ACCOUNT_JSON", "")
            /\ UNCHANGED cur
       ELSE IF setup_client = "raise"
         THEN /\ Exit1("Traceback: FileNotFoundError", "")
              /\ UNCHANGED cur
         ELSE /\ pc' = "mc_keyframes"
              /\ cur' = 1
              /\ UNCHANGED <<exitStatus, console>>
  /\ UNCHANGED <<envVars, advVars, disk, pollVars, mcVars, opState, requests, statusQueried>>

\* takes the first part without looking at its mime type
FirstImage_AnyPart(parts) == IF Len(parts) > 0 THEN 1 ELSE 0

\* index of the first image part of a response, 0 if there is none
FirstImage(parts) ==
  IF \E j \in 1..Len(parts) : parts[j].kind = "image"
    THEN CHOOSE j \in 1..Len(parts) :
           /\ parts[j].kind = "image"
           /\ \A h \in 1..(j - 1) : parts[h].kind # "image"
    ELSE 0

\* the reference never moves past the first keyframe
KeyframeContents_StaleReference(i, ref) ==
  [sent |-> TRUE,
   assets |-> assetParts,
   refs |-> IF i > 1 /\ disk[KfName[1]] # 0
              THEN <<[name |-> KfName[1], data |-> disk[KfName[1]]]>>
              ELSE <<>>,
   prompt |-> i]

\* contents of the request generate_keyframe builds: assets, then the previous
\* keyframe when one is given and exists on disk, then the prompt
KeyframeContents(i, ref) ==
  [sent |-> TRUE,
   assets |-> assetParts,
   refs |-> IF ref # None /\ disk[ref] # 0
              THEN <<[name |-> ref, data |-> disk[ref]]>>
              ELSE <<>>,
   prompt |-> i]

\* the error is printed and generate_keyframe returns: the loop goes on with a
\* keyframe that has no path
keyframe_no_image_Returns ==
  /\ console' = console \cup {Msg("ERROR: No image in response", "")}
  /\ reference' = kfPath[cur]
  /\ IF cur = NumKeyframes
       THEN pc' = "mc_clips" /\ cur' = 1
       ELSE pc' = "mc_keyframes" /\ cur' = cur + 1
  /\ UNCHANGED <<disk, kfPath, exitStatus>>

\* no part of the response is an image: print("ERROR: No image in response"),
\* sys.exit(1); keyframe.path stays None
keyframe_no_image ==
  /\ Exit1("ERROR: No image in response", "")
  /\ UNCHANGED <<disk, kfPath, reference, cur>>

\* one iteration of `for kf in keyframes`: generate_keyframe, then
\* reference = kf.path
generate_keyframe ==
  /\ script = "multiclip"
  /\ pc = "mc_keyframes"
  /\ cur \in 1..NumKeyframes
  /\ kfRequests' = [kfRequests EXCEPT ![cur] = KeyframeContents(cur, reference)]
  /\ requests' = Append(requests, Request("generate_content", cur))
  /\ \/ \* the request raises (network or API error)
        /\ Exit1("Traceback: generate_content", "")
        /\ kfAnswer' = [kfAnswer EXCEPT ![cur] = "raise"]
        /\ UNCHANGED <<disk, kfPath, reference, cur, kfBytes>>
     \/ \E parts \in ContentResponses :
          /\ kfAnswer' = [kfAnswer EXCEPT ![cur] =
                            IF \E j \in 1..Len(parts) : parts[j].kind = "image"
                              THEN "image" ELSE "no_image"]
          /\ kfBytes' = [kfBytes EXCEPT ![cur] =
                           IF FirstImage(parts) # 0
                             THEN parts[FirstImage(parts)].data ELSE 0]
          /\ IF FirstImage(parts) # 0
              THEN /\ disk' = [disk EXCEPT ![KfName[cur]] = parts[FirstImage(parts)].data]
                   /\ kfPath' = [kfPath EXCEPT ![cur] = KfName[cur]]
                   /\ reference' = KfName[cur]
                   /\ IF cur = NumKeyframes
                        THEN pc' = "mc_clips" /\ cur' = 1
                        ELSE pc' = "mc_keyframes" /\ cur' = cur + 1
                   /\ UNCHANGED <<exitStatus, console>>
              ELSE keyframe_no_image
  /\ UNCHANGED <<envVars, advVars, pollVars, opState, clipRequests, clip_paths, final_video,
                 listFile, manifest, concatCalls, ffmpegRuns, result, statusQueried>>

\* client.models.generate_videos accepted by the service: a pending operation;
\* the service fixes how often it answers "not done" (or that it never answers
\* anything else); what it reports at last is known when it reports it
Accepted(i) ==
  /\ operation' = PendingOp
  /\ poll_count' = 0
  /\ queries' = 0
  /\ sleeps' = 0
  /\ \E k \in (0..MaxPolls) \cup {Never} :
       /\ svcK' = k
       /\ svcLeft' = k
       /\ svcFinal' = PendingOp
  /\ opState' = [opState EXCEPT ![i] = "SUBMITTED"]

\* the clip ends on the keyframe it starts from
ClipFramePaths_SameFrame(i) == [first |-> kfPath[i], last |-> kfPath[i]]

\* first_frame = keyframes[i].path, last_frame = keyframes[i + 1].path
ClipFramePaths(i) == [first |-> kfPath[i], last |-> kfPath[i + 1]]

\* the file is read as text: not every content comes back as it was written
from_file_TextMode(location) ==
  [name |-> location, data |-> IF disk[location] > 1 THEN 1 ELSE disk[location]]

\* types.Image.from_file(location=str(path)): the bytes of the file at that path
from_file(location) == [name |-> location, data |-> disk[location]]

\* generate_clip up to the poll loop, called from `for i, clip in enumerate(clips)`
generate_clip_submit ==
  /\ script = "multiclip"
  /\ pc = "mc_clips"
  /\ cur \in 1..NumClips
  /\ LET first_frame == ClipFramePaths(cur).first
         last_frame == ClipFramePaths(cur).last
     IN IF first_frame = None \/ last_frame = None
          THEN \* first_frame.name on None
               /\ Exit1("Traceback: AttributeError", "")
               /\ UNCHANGED <<clipRequests, requests, pollVars, opState>>
          ELSE IF disk[first_frame] = 0 \/ disk[last_frame] = 0
            THEN \* types.Image.from_file on a missing file
                 /\ Exit1("Traceback: FileNotFoundError", "")
                 /\ UNCHANGED <<clipRequests, requests, pollVars, opState>>
            ELSE /\ clipRequests' = [clipRequests EXCEPT ![cur] =
                        [sent |-> TRUE,
                         first |-> from_file(first_frame),
                         last |-> from_file(last_frame),
                         prompt |-> cur]]
                 /\ requests' = Append(requests, Request("generate_videos", cur))
                 /\ \/ /\ Exit1("Traceback: generate_videos", "")
                       /\ UNCHANGED <<pollVars, opState>>
                    \/ /\ Accepted(cur)
                       /\ pc' = "poll"
                       /\ UNCHANGED <<exitStatus, console>>
  /\ UNCHANGED <<envVars, advVars, cur, disk, kfPath, reference, kfRequests, kfAnswer, kfBytes,
                 clip_paths, final_video, listFile, manifest, concatCalls, ffmpegRuns, result,
                 statusQueried>>

\* gives up after the first poll
LoopCondition_GivesUp(op) == ~op.done /\ poll_count < 1

\* polls twice whatever the service says
LoopCondition_PollsAgain(op) == ~op.done \/ poll_count < 2

\* does not wait for the operation at all
LoopCondition_NoWait(op) == FALSE

\* the condition of `while not operation.done:`
LoopCondition(op) == ~op.done

\* n + 1, as far as the model counts
Counted(n) == IF n < PollCap THEN n + 1 ELSE n

\* `while not operation.done:` taken: poll_count += 1, time.sleep(15)
poll_wait ==
  /\ pc = "poll"
  /\ LoopCondition(operation)
  /\ poll_count' = Counted(poll_count)
  /\ sleeps' = Counted(sleeps)
  /\ opState' = [opState EXCEPT ![cur] = "POLLING"]
  /\ pc' = "get"
  /\ UNCHANGED <<envVars, advVars, cur, exitStatus, console, disk, mcVars, operation, queries,
                 svcK, svcLeft, svcFinal, requests, statusQueried>>

\* operation = client.operations.get(operation)
poll_get ==
  /\ pc = "get"
  /\ queries' = Counted(queries)
  /\ statusQueried' = statusQueried \cup {cur}
  /\ IF svcLeft = 0
       THEN \E final \in FinalOps :
              /\ operation' = final
              /\ svcFinal' = final
              /\ opState' = [opState EXCEPT ![cur] =
                               IF final.response THEN "DONE_SUCCESS" ELSE "DONE_FAILURE"]
              /\ UNCHANGED svcLeft
       ELSE /\ operation' = PendingOp
            /\ svcLeft' = IF svcLeft = Never THEN Never ELSE svcLeft - 1
            /\ UNCHANGED <<opState, svcFinal>>
  /\ pc' = "poll"
  /\ UNCHANGED <<envVars, advVars, cur, exitStatus, console, disk, mcVars, poll_count, sleeps,
                 svcK, requests>>

\* the locals of a finished call go out of scope
ReturnFromCall ==
  /\ operation' = PendingOp
  /\ poll_count' = 0
  /\ queries' = 0
  /\ sleeps' = 0
  /\ svcK' = 0
  /\ svcLeft' = 0
  /\ svcFinal' = PendingOp

\* isinstance(video_bytes, str) -> base64.b64decode
DecodedBytes(vb) == IF vb.kind = "str" THEN b64decode(vb) ELSE vb

\* every clip is written to the file of the first clip
generate_clip_return_SameFile(op, i) ==
  IF op.response /\ Len(op.videos) > 0 /\ op.videos[1].video_bytes.kind # "none"
    THEN [path |-> ClipName[1], data |-> op.videos[1].video_bytes.data, text |-> "Saved"]
    ELSE [path |-> None, data |-> 0, text |-> "ERROR: No video generated"]

\* what generate_clip does with a finished operation: the file it writes
\* (data 0: none), the path it returns and the line it prints
generate_clip_return(op, i) ==
  IF op.response /\ Len(op.videos) > 0
    THEN LET v == op.videos[1]
         IN IF v.video_bytes.kind # "none"
              THEN [path |-> ClipName[i], data |-> DecodedBytes(v.video_bytes).data,
                    text |-> "Saved"]
              ELSE IF v.uri # ""
                THEN [path |-> None, data |-> 0, text |-> "Video at GCS"]
                ELSE [path |-> None, data |-> 0, text |-> "ERROR: No video generated"]
    ELSE [path |-> None, data |-> 0, text |-> "ERROR: No video generated"]

\* the loop over the clips is left at the first clip without a path
ClipLoopNext_StopsAtFailure(i, clip_path) ==
  IF clip_path = None THEN NumClips + 1 ELSE i + 1

\* a clip without a path is requested a second time
ClipLoopNext_RetriesOnce(i, clip_path) ==
  IF clip_path = None
       /\ Cardinality({r \in 1..Len(requests) :
                         requests[r] = Request("generate_videos", i)}) < 2
    THEN i ELSE i + 1

\* `for i, clip in enumerate(clips)`: the clip worked on after clip i, whatever
\* generate_clip returned for it
ClipLoopNext(i, clip_path) == i + 1

\* generate_clip after the poll loop, and `if clip_path: clip_paths.append`
generate_clip_result ==
  /\ script = "multiclip"
  /\ pc = "poll"
  /\ ~LoopCondition(operation)
  /\ LET r == generate_clip_return(operation, cur)
     IN /\ disk' = IF r.path # None THEN [disk EXCEPT ![r.path] = r.data] ELSE disk
        /\ clip_paths' = IF r.path # None THEN Append(clip_paths, r.path) ELSE clip_paths
        /\ console' = IF r.text = "ERROR: No video generated"
                        THEN console \cup {Msg(r.text, "")}
                        ELSE console
        /\ IF ClipLoopNext(cur, r.path) > NumClips
             THEN pc' = "mc_concat" /\ cur' = cur
             ELSE pc' = "mc_clips" /\ cur' = ClipLoopNext(cur, r.path)
  /\ ReturnFromCall
  /\ UNCHANGED <<envVars, advVars, exitStatus, kfPath, reference, kfRequests, kfAnswer, kfBytes,
                 clipRequests, final_video, listFile, manifest, concatCalls, ffmpegRuns,
                 result,
                 opState, requests, statusQueried>>

\* concatenates as soon as there is any clip
AllClipsGenerated_AnyClip(paths) == Len(paths) > 0

\* `if len(clip_paths) == len(clips):`
AllClipsGenerated(paths) == Len(paths) = NumClips

\* the manifest is never removed
ListFileAfter_NeverUnlinked(rc, clips) == [exists |-> TRUE, lines |-> clips]

\* clips.txt when concatenate_clips returns: written with one line per clip,
\* then removed by list_file.unlink() only when ffmpeg returned 0
ListFileAfter(rc, clips) ==
  IF rc = 0 THEN NoListFile ELSE [exists |-> TRUE, lines |-> clips]

\* the first clip is left out of the list
ManifestLines_SkipsFirst(clips) == [j \in 1..(Len(clips) - 1) |-> clips[j + 1]]

\* `for clip in clips: f.write(f"file '{clip.absolute()}'\n")`: one line per
\* clip, in the order of the list
ManifestLines(clips) == [j \in 1..Len(clips) |-> clips[j]]

\* `if len(clip_paths) == len(clips)`: concatenate_clips, then the summary
concatenate_clips ==
  /\ script = "multiclip"
  /\ pc = "mc_concat"
  /\ AllClipsGenerated(clip_paths)
  /\ concatCalls' = concatCalls + 1
  /\ manifest' = ManifestLines(clip_paths)
  /\ \/ \* subprocess.run cannot start ffmpeg and raises: clips.txt is written
        /\ listFile' = [exists |-> TRUE, lines |-> ManifestLines(clip_paths)]
        /\ Exit1("Traceback: FileNotFoundError ffmpeg", "")
        /\ UNCHANGED <<ffmpegRuns, result, disk, final_video>>
     \/ \E res \in {[returncode |-> 0, stderr |-> ""]}
                    \cup {[returncode |-> 1, stderr |-> err] : err \in Stderrs} :
          /\ ffmpegRuns' = ffmpegRuns + 1
          /\ result' = res
          /\ listFile' = ListFileAfter(res.returncode, ManifestLines(clip_paths))
          /\ IF res.returncode = 0
               THEN \* ffmpeg wrote the output file
                    /\ disk' = [disk EXCEPT ![FinalName] = disk[clip_paths[1]]]
                    /\ final_video' = FinalName
                    /\ UNCHANGED console
               ELSE \* print(f"ffmpeg error: {result.stderr}"), return None
                    /\ console' = console \cup {Msg("ffmpeg error", res.stderr)}
                    /\ final_video' = None
                    /\ UNCHANGED disk
          /\ pc' = "done"
          /\ exitStatus' = 0
  /\ UNCHANGED <<envVars, advVars, cur, kfPath, reference, kfRequests, kfAnswer, kfBytes,
                 clipRequests,
                 clip_paths, pollVars, opState, requests, statusQueried>>

\* the else branch: warn and skip concatenation, then the summary
skip_concatenation ==
  /\ script = "multiclip"
  /\ pc = "mc_concat"
  /\ ~AllClipsGenerated(clip_paths)
  /\ console' = console \cup {Msg("WARNING: skipping concatenation", "")}
  /\ final_video' = None
  /\ pc' = "done"
  /\ exitStatus' = 0
  /\ UNCHANGED <<envVars, advVars, cur, disk, kfPath, reference, kfRequests, kfAnswer, kfBytes,
                 clipRequests, clip_paths, listFile, manifest, concatCalls, ffmpegRuns,
                 result,
                 pollVars, opState, requests, statusQueried>>

\* ------------------------------------------------------ generate_video.py
\* main up to the client: the three configuration checks, then credentials
gv_setup ==
  /\ script = "generate_video"
  /\ pc = "start"
  /\ IF ~projectSet
       THEN Exit1("ERROR: VERTEX_AI_PROJECT_ID environment variable not set", "")
       ELSE IF saPath = "unset"
         THEN Exit1("ERROR: VERTEX_AI_SERVICE_ACCOUNT_JSON environment variable not set", "")
         ELSE IF saPath # "valid"
           THEN Exit1("ERROR: Service account file not found", "")
           ELSE /\ pc' = "gv_submit"
                /\ UNCHANGED <<exitStatus, console>>
  /\ UNCHANGED <<envVars, advVars, cur, disk, pollVars, mcVars, opState, requests,
                 statusQueried>>

\* operation = client.models.generate_videos(...)
gv_submit ==
  /\ script = "generate_video"
  /\ pc = "gv_submit"
  /\ requests' = Append(requests, Request("generate_videos", 1))
  /\ cur' = 1
  /\ \/ /\ Exit1("Traceback: generate_videos", "")
        /\ UNCHANGED <<pollVars, opState>>
     \/ /\ Accepted(1)
        /\ pc' = "poll"
        /\ UNCHANGED <<exitStatus, console>>
  /\ UNCHANGED <<envVars, advVars, disk, mcVars, statusQueried>>

\* "Handle result" of generate_video.py
gv_result ==
  /\ script = "generate_video"
  /\ pc = "poll"
  /\ ~LoopCondition(operation)
  /\ IF operation.response
       THEN IF Len(operation.videos) > 0
         THEN LET v == operation.videos[1]
              IN /\ disk' = IF v.uri = "" /\ v.video_bytes.kind # "none"
                              THEN [disk EXCEPT ![OutputVideo] =
                                      DecodedBytes(v.video_bytes).data]
                              ELSE disk
                 /\ pc' = "done"
                 /\ exitStatus' = 0
                 /\ UNCHANGED console
         ELSE /\ Exit1("ERROR: No videos in result", "")
              /\ UNCHANGED disk
       ELSE /\ pc' = "exited"
            /\ exitStatus' = 1
            /\ console' = console \cup {Msg("ERROR: Operation failed", ""),
                                        Msg("Error", operation.error)}
            /\ UNCHANGED disk
  /\ ReturnFromCall
  /\ UNCHANGED <<envVars, advVars, cur, mcVars, opState, requests, statusQueried>>

\* ------------------------------------------------ the advanced workflow
\* main up to step 1: setup_client and the output directory
adv_setup ==
  /\ script = "advanced"
  /\ pc = "start"
  /\ IF setup_client = "exit"
       THEN Exit1("ERROR: Missing environment variables", "")
       ELSE IF setup_client = "raise"
         THEN Exit1("Traceback: FileNotFoundError", "")
         ELSE /\ pc' = "adv_step1"
              /\ UNCHANGED <<exitStatus, console>>
  /\ UNCHANGED <<envVars, advVars, cur, disk, pollVars, mcVars, opState, requests,
                 statusQueried>>

step1_generate_base_image ==
  /\ script = "advanced"
  /\ pc = "adv_step1"
  /\ requests' = Append(requests, Request("generate_images", 1))
  /\ \/ /\ Exit1("Traceback: generate_images", "")
        /\ UNCHANGED <<disk, base_image>>
     \/ \E imgs \in ImageLists :
          IF Len(imgs) = 0
            THEN /\ Exit1("ERROR: No image generated", "")
                 /\ UNCHANGED <<disk, base_image>>
            ELSE /\ disk' = [disk EXCEPT ![Step1Name] = imgs[1]]
                 /\ base_image' = Step1Name
                 /\ pc' = "adv_step2"
                 /\ UNCHANGED <<exitStatus, console>>
  /\ UNCHANGED <<envVars, variation_image, video, cur, pollVars, mcVars, opState,
                 statusQueried>>

\* the except branch ends the run without another request
step2_fallback_Aborts ==
  /\ requests' = Append(requests, Request("edit_image", 2))
  /\ Exit1("ERROR with subject reference", "")
  /\ UNCHANGED <<disk, variation_image>>

\* edit_image raised: the except branch of step2_generate_variation prints the
\* error and calls the text-only generate_images
step2_fallback ==
  /\ requests' = requests \o <<Request("edit_image", 2), Request("generate_images", 2)>>
  /\ \/ /\ pc' = "exited"
        /\ exitStatus' = 1
        /\ console' = console \cup {Msg("ERROR with subject reference", ""),
                                    Msg("Traceback: generate_images", "")}
        /\ UNCHANGED <<disk, variation_image>>
     \/ \E imgs \in ImageLists :
          IF Len(imgs) = 0
            THEN /\ pc' = "exited"
                 /\ exitStatus' = 1
                 /\ console' = console \cup {Msg("ERROR with subject reference", ""),
                                             Msg("ERROR: Fallback also failed", "")}
                 /\ UNCHANGED <<disk, variation_image>>
            ELSE /\ disk' = [disk EXCEPT ![Step2Name] = imgs[1]]
                 /\ variation_image' = Step2Name
                 /\ pc' = "adv_step3"
                 /\ console' = console \cup {Msg("ERROR with subject reference", "")}
                 /\ UNCHANGED exitStatus

\* the exit of the try block is caught like an error: the fallback runs
step2_empty_edit_Caught ==
  /\ requests' = requests \o <<Request("edit_image", 2), Request("generate_images", 2)>>
  /\ console' = console \cup {Msg("ERROR: No image generated", ""),
                              Msg("ERROR with subject reference", "")}
  /\ disk' = [disk EXCEPT ![Step2Name] = 1]
  /\ variation_image' = Step2Name
  /\ pc' = "adv_step3"
  /\ UNCHANGED exitStatus

\* edit_image returned no image: `if not response.generated_images:` prints and
\* calls sys.exit(1); SystemExit is not an Exception, so `except Exception`
\* lets it pass and the run ends
step2_empty_edit ==
  /\ requests' = Append(requests, Request("edit_image", 2))
  /\ Exit1("ERROR: No image generated", "")
  /\ UNCHANGED <<disk, variation_image>>

step2_generate_variation ==
  /\ script = "advanced"
  /\ pc = "adv_step2"
  /\ IF disk[base_image] = 0
       THEN \* types.Image.from_file on a missing file
            /\ Exit1("Traceback: FileNotFoundError", "")
            /\ UNCHANGED <<disk, variation_image, requests>>
       ELSE \/ \* edit_image raises: caught by `except Exception`
               step2_fallback
            \/ \E imgs \in ImageLists :
                 IF Len(imgs) = 0
                   THEN step2_empty_edit
                   ELSE /\ requests' = Append(requests, Request("edit_image", 2))
                        /\ disk' = [disk EXCEPT ![Step2Name] = imgs[1]]
                        /\ variation_image' = Step2Name
                        /\ pc' = "adv_step3"
                        /\ UNCHANGED <<exitStatus, console>>
  /\ UNCHANGED <<envVars, base_image, video, cur, pollVars, mcVars, opState,
                 statusQueried>>

\* step3_generate_video up to the poll loop
step3_submit ==
  /\ script = "advanced"
  /\ pc = "adv_step3"
  /\ cur' = 1
  /\ IF disk[base_image] = 0 \/ disk[variation_image] = 0
       THEN /\ Exit1("Traceback: FileNotFoundError", "")
            /\ UNCHANGED <<requests, clipRequests, pollVars, opState>>
       ELSE /\ requests' = Append(requests, Request("generate_videos", 3))
            /\ clipRequests' = [clipRequests EXCEPT ![1] =
                   [sent |-> TRUE,
                    first |-> from_file(base_image),
                    last |-> from_file(variation_image),
                    prompt |-> 3]]
            /\ \/ \* the request raises inside `try`: printed, return None, summary
                  /\ console' = console \cup {Msg("ERROR", "exception")}
                  /\ pc' = "done"
                  /\ exitStatus' = 0
                  /\ UNCHANGED <<pollVars, opState>>
               \/ /\ Accepted(1)
                  /\ pc' = "poll"
                  /\ UNCHANGED <<exitStatus, console>>
  /\ UNCHANGED <<envVars, advVars, disk, mcOther, statusQueried>>

\* what step3_generate_video returns for a finished operation
step3_return(op) ==
  IF op.response
    THEN IF Len(op.videos) > 0
      THEN LET v == op.videos[1]
           IN IF v.video_bytes.kind # "none"
                THEN [ret |-> Step3Name, data |-> DecodedBytes(v.video_bytes).data,
                      msgs |-> {}]
                ELSE IF v.uri # ""
                  THEN [ret |-> v.uri, data |-> 0, msgs |-> {}]
                  ELSE [ret |-> None, data |-> 0,
                        msgs |-> {Msg("Video generated but couldn't extract bytes", "")}]
      ELSE [ret |-> None, data |-> 0, msgs |-> {Msg("ERROR: No videos in result", "")}]
    ELSE [ret |-> None, data |-> 0,
          msgs |-> {Msg("ERROR: Operation failed", ""), Msg("Error", op.error)}]

\* step3_generate_video after the poll loop, then main's summary
step3_result ==
  /\ script = "advanced"
  /\ pc = "poll"
  /\ ~LoopCondition(operation)
  /\ LET r == step3_return(operation)
     IN /\ disk' = IF r.data # 0 THEN [disk EXCEPT ![Step3Name] = r.data] ELSE disk
        /\ video' = r.ret
        /\ console' = console \cup r.msgs
  /\ ReturnFromCall
  /\ pc' = "done"
  /\ exitStatus' = 0
  /\ UNCHANGED <<envVars, base_image, variation_image, cur, mcVars, opState, requests,
                 statusQueried>>

\* -------------------------------------------------- test_video_only.py
\* main up to the loop over models_to_try
vo_setup ==
  /\ script = "video_only"
  /\ pc = "start"
  /\ IF setup_unchecked = "raise"
       THEN Exit1("Traceback: client setup", "") /\ UNCHANGED cur
       ELSE IF disk[Step1Name] = 0 \/ disk[Step2Name] = 0
         THEN /\ Exit1("ERROR: Run test_advanced_workflow.py first to generate images", "")
              /\ UNCHANGED cur
         ELSE /\ pc' = "vo_try"
              /\ cur' = 1
              /\ UNCHANGED <<exitStatus, console>>
  /\ UNCHANGED <<envVars, advVars, disk, pollVars, mcVars, opState, requests,
                 statusQueried>>

\* the loop is left at the first model that gives no video
NextModel_GivesUp ==
  /\ console' = console \cup {Msg("No video from model", ""), Msg("All models failed", "")}
  /\ pc' = "done"
  /\ exitStatus' = 0
  /\ cur' = cur

\* `for model in models_to_try` moves on, or falls out with "All models failed"
NextModel ==
  IF cur = NumModels
    THEN /\ console' = console \cup {Msg("No video from model", ""),
                                     Msg("All models failed", "")}
         /\ pc' = "done"
         /\ exitStatus' = 0
         /\ cur' = cur
    ELSE /\ console' = console \cup {Msg("No video from model", "")}
         /\ pc' = "vo_try"
         /\ cur' = cur + 1
         /\ UNCHANGED exitStatus

\* generate_videos for the model being tried; an exception goes to the next model
vo_submit ==
  /\ script = "video_only"
  /\ pc = "vo_try"
  /\ cur \in 1..NumModels
  /\ requests' = Append(requests, Request("generate_videos", cur))
  /\ \/ /\ NextModel
        /\ UNCHANGED <<pollVars, opState>>
     \/ /\ Accepted(cur)
        /\ pc' = "poll"
        /\ UNCHANGED <<cur, exitStatus, console>>
  /\ UNCHANGED <<envVars, advVars, disk, mcVars, statusQueried>>

\* the finished operation of the model being tried
vo_result ==
  /\ script = "video_only"
  /\ pc = "poll"
  /\ ~LoopCondition(operation)
  /\ IF operation.response /\ Len(operation.videos) > 0
          /\ (operation.videos[1].video_bytes.kind # "none" \/ operation.videos[1].uri # "")
       THEN LET v == operation.videos[1]
            IN /\ disk' = IF v.video_bytes.kind # "none"
                            THEN [disk EXCEPT ![Step3Name] = DecodedBytes(v.video_bytes).data]
                            ELSE disk
               /\ pc' = "done"
               /\ exitStatus' = 0
               /\ UNCHANGED <<cur, console>>
       ELSE /\ NextModel
            /\ UNCHANGED disk
  /\ ReturnFromCall
  /\ UNCHANGED <<envVars, advVars, mcVars, opState, requests, statusQueried>>

\* ---------------------------------------------------- test_video_v2.py
v2_setup ==
  /\ script = "video_v2"
  /\ pc = "start"
  /\ IF setup_unchecked = "raise"
       THEN Exit1("Traceback: client setup", "")
       ELSE IF disk[Step1Name] = 0 \/ disk[Step2V2Name] = 0
         THEN Exit1("ERROR: Required images not found", "")
         ELSE /\ pc' = "v2_submit"
              /\ UNCHANGED <<exitStatus, console>>
  /\ UNCHANGED <<envVars, advVars, cur, disk, pollVars, mcVars, opState, requests,
                 statusQueried>>

v2_submit ==
  /\ script = "video_v2"
  /\ pc = "v2_submit"
  /\ requests' = Append(requests, Request("generate_videos", 1))
  /\ cur' = 1
  /\ \/ /\ Exit1("Traceback: generate_videos", "")
        /\ UNCHANGED <<pollVars, opState>>
     \/ /\ Accepted(1)
        /\ pc' = "poll"
        /\ UNCHANGED <<exitStatus, console>>
  /\ UNCHANGED <<envVars, advVars, disk, mcVars, statusQueried>>

v2_result ==
  /\ script = "video_v2"
  /\ pc = "poll"
  /\ ~LoopCondition(operation)
  /\ IF operation.response
       THEN IF Len(operation.videos) > 0
         THEN LET v == operation.videos[1]
              IN /\ disk' = IF v.video_bytes.kind # "none"
                              THEN [disk EXCEPT ![Step3V2Name] =
                                      DecodedBytes(v.video_bytes).data]
                              ELSE disk
                 /\ console' = IF v.video_bytes.kind = "none" /\ v.uri = ""
                                 THEN console \cup {Msg("Video generated but no bytes found", "")}
                                 ELSE console
         ELSE /\ console' = console \cup {Msg("No videos in result", "")}
              /\ UNCHANGED disk
       ELSE /\ console' = console \cup {Msg("Operation failed", ""),
                                        Msg("Error", operation.error)}
            /\ UNCHANGED disk
  /\ pc' = "done"
  /\ exitStatus' = 0
  /\ ReturnFromCall
  /\ UNCHANGED <<envVars, advVars, cur, mcVars, opState, requests, statusQueried>>

\* --------------------------------------------------- test_step2_only.py
s2_setup ==
  /\ script = "step2_only"
  /\ pc = "start"
  /\ IF setup_unchecked = "raise"
       THEN Exit1("Traceback: client setup", "")
       ELSE IF disk[Step1Name] = 0
         THEN Exit1("ERROR: Run test_advanced_workflow.py first to generate base image", "")
         ELSE /\ pc' = "s2_edit"
              /\ UNCHANGED <<exitStatus, console>>
  /\ UNCHANGED <<envVars, advVars, cur, disk, pollVars, mcVars, opState, requests,
                 statusQueried>>

\* the try block around edit_image
s2_edit ==
  /\ script = "step2_only"
  /\ pc = "s2_edit"
  /\ requests' = Append(requests, Request("edit_image", 1))
  /\ \/ /\ console' = console \cup {Msg("ERROR", "exception")}
        /\ UNCHANGED disk
     \/ \E imgs \in ImageLists :
          IF Len(imgs) = 0
            THEN /\ console' = console \cup {Msg("No images generated", "")}
                 /\ UNCHANGED disk
            ELSE /\ disk' = [disk EXCEPT ![Step2V2Name] = imgs[1]]
                 /\ UNCHANGED console
  /\ pc' = "done"
  /\ exitStatus' = 0
  /\ UNCHANGED <<envVars, advVars, cur, pollVars, mcVars, opState, statusQueried>>

\* ---------------------------------------------- test_screen_composite.py
sc_setup ==
  /\ script = "screen_composite"
  /\ pc = "start"
  /\ IF setup_client = "exit"
       THEN /\ Exit1("ERROR: Set VERTEX_AI_PROJECT_ID and VERTEX_AI_SERVICE_ACCOUNT_JSON", "")
            /\ UNCHANGED cur
       ELSE IF setup_client = "raise"
         THEN Exit1("Traceback: FileNotFoundError", "") /\ UNCHANGED cur
         ELSE IF disk[Screenshot] = 0
           THEN Exit1("ERROR: Screenshot not found", "") /\ UNCHANGED cur
           ELSE /\ pc' = "sc_test"
                /\ cur' = 1
                /\ UNCHANGED <<exitStatus, console>>
  /\ UNCHANGED <<envVars, advVars, disk, pollVars, mcVars, opState, requests,
                 statusQueried>>

\* one of the three generate_content calls of test_screen_composite
test_screen_composite ==
  /\ script = "screen_composite"
  /\ pc = "sc_test"
  /\ cur \in 1..NumCompositeTests
  /\ requests' = Append(requests, Request("generate_content", cur))
  /\ \/ /\ Exit1("Traceback: generate_content", "")
        /\ UNCHANGED <<disk, cur>>
     \/ \E parts \in ContentResponses :
          /\ disk' = IF FirstImage(parts) # 0
                       THEN [disk EXCEPT ![CompositeName[cur]] = parts[FirstImage(parts)].data]
                       ELSE disk
          /\ IF cur = NumCompositeTests
               THEN pc' = "done" /\ exitStatus' = 0 /\ cur' = cur
               ELSE pc' = "sc_test" /\ cur' = cur + 1 /\ UNCHANGED exitStatus
          /\ UNCHANGED console
  /\ UNCHANGED <<envVars, advVars, pollVars, mcVars, opState, statusQueried>>

Next ==
  \/ mc_setup
  \/ generate_keyframe
  \/ generate_clip_submit
  \/ poll_wait
  \/ poll_get
  \/ generate_clip_result
  \/ concatenate_clips
  \/ skip_concatenation
  \/ gv_setup
  \/ gv_submit
  \/ gv_result
  \/ adv_setup
  \/ step1_generate_base_image
  \/ step2_generate_variation
  \/ step3_submit
  \/ step3_result
  \/ vo_setup
  \/ vo_submit
  \/ vo_result
  \/ v2_setup
  \/ v2_submit
  \/ v2_result
  \/ s2_setup
  \/ s2_edit
  \/ sc_setup
  \/ test_screen_composite

Spec == Init /\ [][Next]_vars

\* the script is one sequential process that the interpreter keeps running:
\* whenever it has a next step, it takes one
LiveSpec == Init /\ [][Next]_vars /\ WF_vars(Next)


\* ======================================================== properties
Terminated == pc \in {"done", "exited"}

\* the artifact a keyframe left on disk
KfArtifact(i) == [name |-> KfName[i], data |-> disk[KfName[i]]]

\* C1: in the multi-clip workflow the request for the first keyframe carries no
\* prior keyframe, and the request for every later keyframe carries exactly one
\* continuity reference: the artifact written for the keyframe just before it.
C1_KeyframeContinuity ==
  script = "multiclip" =>
    \A i \in 1..NumKeyframes :
      kfRequests[i].sent =>
        IF i = 1
          THEN kfRequests[i].refs = <<>>
          ELSE /\ disk[KfName[i - 1]] # 0
               /\ kfRequests[i].refs = <<KfArtifact(i - 1)>>

\* all keyframes requested, and neighbouring keyframes differ in content, so a
\* stale or own reference would be told apart
C1_Witness ==
  /\ script = "multiclip"
  /\ kfRequests[NumKeyframes].sent
  /\ kfPath[NumKeyframes] # None
  /\ \A i \in 1..(NumKeyframes - 1) : disk[KfName[i]] # disk[KfName[i + 1]]

\* C2: every clip i is submitted with the artifact of keyframe i as first frame
\* and the artifact of keyframe i+1 as last frame, so the last frame of a clip
\* is the first frame of the next one.
C2_ClipFrames ==
  script = "multiclip" =>
    \A i \in 1..NumClips :
      clipRequests[i].sent =>
        /\ disk[KfName[i]] # 0
        /\ disk[KfName[i + 1]] # 0
        /\ clipRequests[i].first = KfArtifact(i)
        /\ clipRequests[i].last = KfArtifact(i + 1)
        /\ (i < NumClips /\ clipRequests[i + 1].sent) =>
             clipRequests[i].last = clipRequests[i + 1].first

C2_Witness ==
  /\ script = "multiclip"
  /\ \A i \in 1..NumClips : clipRequests[i].sent
  /\ \A i \in 1..(NumKeyframes - 1) : disk[KfName[i]] # disk[KfName[i + 1]]

\* clips whose bytes were written to disk in this run
ProducedClips == {i \in 1..NumClips : disk[ClipName[i]] # 0}
PartialWarning == Msg("WARNING: skipping concatenation", "") \in console
NoFinalVideo == final_video = None /\ disk[FinalName] = 0

\* C3 as stated: in every run of the multi-clip workflow concatenation is
\* invoked iff as many clip artifacts were produced as clips are defined, and
\* every other run issues the partial-result warning, never concatenates and
\* produces no final video.
C3_AsStated ==
  (script = "multiclip" /\ Terminated) =>
    /\ (concatCalls > 0) <=> (Cardinality(ProducedClips) = NumClips)
    /\ Cardinality(ProducedClips) # NumClips =>
         PartialWarning /\ concatCalls = 0 /\ NoFinalVideo

\* C3 amended: concatenation is never invoked unless every defined clip was
\* written to disk, and every run that reaches the concatenation decision
\* concatenates iff all clips were written and otherwise warns, does not
\* concatenate and produces no final video.
C3_ConcatIffAllClips ==
  script = "multiclip" =>
    /\ concatCalls > 0 => Cardinality(ProducedClips) = NumClips
    /\ Cardinality(ProducedClips) # NumClips => NoFinalVideo
    /\ pc = "done" =>
         /\ (concatCalls > 0) <=> (Cardinality(ProducedClips) = NumClips)
         /\ Cardinality(ProducedClips) # NumClips => PartialWarning /\ concatCalls = 0
    /\ pc = "exited" => ~PartialWarning

\* a finished run with some, but not all, clips on disk
C3_Witness ==
  /\ script = "multiclip"
  /\ pc = "done"
  /\ Cardinality(ProducedClips) = NumClips - 1
  /\ PartialWarning


\* C4: the poll loop of a submitted operation is left exactly when the
\* operation first reports done: against a service that answers "not done" to k
\* status queries and then "done", the loop performs exactly k+1 queries, each
\* preceded by one sleep, is never left while the operation is not done, and
\* issues no query once done was observed.
C4_PollLoopExact ==
  /\ [](/\ (pc = "poll" /\ operation.done) =>
             (svcK # Never /\ queries = svcK + 1 /\ sleeps = queries /\ poll_count = queries)
        /\ (pc = "poll" /\ ~operation.done /\ svcK # Never) =>
             (queries <= svcK /\ sleeps = queries)
        /\ (pc = "get") => ~operation.done
        /\ (pc = "get" /\ svcK # Never) => (queries <= svcK /\ sleeps = queries + 1))
  /\ [][(pc = "poll" /\ pc' \notin {"poll", "get"}) => operation.done]_vars
  /\ [][(queries' > queries) => (~operation.done /\ sleeps = queries + 1)]_vars

\* the loop has just ended after the largest number of "not done" answers
C4_Witness ==
  /\ pc = "poll"
  /\ operation.done
  /\ svcK = MaxPolls
  /\ queries = MaxPolls + 1

OpStates == {"NONE", "SUBMITTED", "POLLING", "DONE_SUCCESS", "DONE_FAILURE"}
DoneStates == {"DONE_SUCCESS", "DONE_FAILURE"}

\* C5: every clip generation moves SUBMITTED -> POLLING (self-loop) ->
\* DONE_SUCCESS or DONE_FAILURE: it is SUBMITTED right after the request is
\* accepted, POLLING is left only for a DONE state, a DONE state is never left
\* and receives no further status query, and there is no other (cancelled) state.
C5_ClipStateMachine ==
  /\ [](\A i \in OpIds : opState[i] \in OpStates)
  /\ [][\A i \in OpIds :
          /\ opState[i] = "NONE" => opState'[i] \in {"NONE", "SUBMITTED"}
          /\ (opState[i] = "NONE" /\ opState'[i] = "SUBMITTED") =>
               (Len(requests') = Len(requests) + 1 /\ pc' = "poll" /\ ~operation'.done)
          /\ opState[i] = "SUBMITTED" => opState'[i] \in {"SUBMITTED", "POLLING"}
          /\ opState[i] = "POLLING" => opState'[i] \in {"POLLING"} \cup DoneStates
          /\ opState[i] \in DoneStates =>
               /\ opState'[i] = opState[i]
               /\ (cur' = i /\ cur = i) => queries' <= queries]_vars
  /\ [][(Len(requests') > Len(requests) /\ pc' = "poll") =>
          opState'[cur'] = "SUBMITTED"]_vars

\* one clip succeeded, one failed and the third is being polled
C5_Witness ==
  /\ script = "multiclip"
  /\ opState[1] = "DONE_SUCCESS"
  /\ opState[2] = "DONE_FAILURE"
  /\ opState[3] = "POLLING"
  /\ queries > 0

Outstanding == {i \in OpIds : opState[i] \in {"SUBMITTED", "POLLING"}}

\* C6: execution is strictly sequential: keyframe i+1 is requested only after
\* keyframe i was saved, a clip only after both its keyframes exist, clip i+1
\* only after clip i reached a terminal state, concatenation only after every
\* clip exists, and never are two remote operations outstanding at once.
C6_Sequential ==
  /\ Cardinality(Outstanding) <= 1
  /\ script = "multiclip" =>
       /\ \A i \in 2..NumKeyframes :
            kfRequests[i].sent => (kfPath[i - 1] # None /\ disk[KfName[i - 1]] # 0)
       /\ \A i \in 1..NumClips :
            clipRequests[i].sent =>
              /\ \A j \in 1..NumKeyframes : kfPath[j] # None /\ disk[KfName[j]] # 0
              /\ \A h \in 1..(i - 1) : clipRequests[h].sent /\ opState[h] \in DoneStates
       /\ concatCalls > 0 =>
            /\ \A i \in 1..NumClips : opState[i] \in DoneStates /\ disk[ClipName[i]] # 0
  /\ script = "advanced" =>
       /\ (\E r \in 1..Len(requests) : requests[r].item = 2) =>
            (base_image # None /\ disk[Step1Name] # 0)
       /\ (\E r \in 1..Len(requests) : requests[r].item = 3) =>
            (variation_image # None /\ disk[Step1Name] # 0 /\ disk[Step2Name] # 0)

\* the last clip is being polled after the first two finished
C6_Witness ==
  /\ script = "multiclip"
  /\ Outstanding = {NumClips}
  /\ \A h \in 1..(NumClips - 1) : opState[h] \in DoneStates

\* C7: with a credential path that names no file every script ends with an
\* error and exit status 1 before any network call: no generation request and
\* no status query is ever issued in that run.
C7_NoCallsWithoutCredentials ==
  saPath = "missing" =>
    /\ requests = <<>>
    /\ statusQueried = {}
    /\ \A i \in OpIds : opState[i] = "NONE"
    /\ pc \in {"start", "exited"}
    /\ pc = "exited" => (exitStatus = 1 /\ console # {})

C7_Witness ==
  /\ saPath = "missing"
  /\ projectSet
  /\ pc = "exited"
  /\ script = "multiclip"

\* C8: a keyframe answer without image data ends the run with the empty-result
\* error: no later keyframe, no clip and no concatenation is requested (and the
\* same for the base image of the advanced workflow).
C8_EmptyKeyframeAborts ==
  /\ script = "multiclip" =>
       \A j \in 1..NumKeyframes :
         kfAnswer[j] = "no_image" =>
           /\ pc = "exited"
           /\ exitStatus = 1
           /\ Msg("ERROR: No image in response", "") \in console
           /\ kfPath[j] = None
           /\ Len(requests) = j
           /\ \A h \in (j + 1)..NumKeyframes : ~kfRequests[h].sent
           /\ \A i \in 1..NumClips : ~clipRequests[i].sent /\ opState[i] = "NONE"
           /\ concatCalls = 0
           /\ ffmpegRuns = 0
  /\ (script = "advanced" /\ requests # <<>> /\ base_image = None) =>
       /\ pc = "exited"
       /\ exitStatus = 1
       /\ Len(requests) = 1

\* the third keyframe came back without an image
C8_Witness ==
  /\ script = "multiclip"
  /\ kfAnswer[3] = "no_image"
  /\ kfPath[2] # None

\* C9: when the operation of a clip finishes without a response, generate_clip
\* reports an error that carries the error payload of the operation, and no
\* artifact is recorded for the clip.
C9_FailurePayloadSurfaced ==
  [][(script = "multiclip" /\ pc = "poll" /\ operation.done /\ ~operation.response
      /\ pc' # "poll" /\ pc' # "get") =>
        /\ \E m \in console' : m.payload = operation.error
        /\ clip_paths' = clip_paths
        /\ disk' = disk]_vars

\* C10: concatenate_clips writes the manifest and runs ffmpeg once; when it
\* returns 0 the output path is returned and the manifest is gone; when it
\* returns non-zero the error line carries ffmpeg's stderr, there is no final
\* video and the manifest, listing the clips, remains.
C10_ConcatContract ==
  script = "multiclip" =>
    /\ ffmpegRuns <= concatCalls
    /\ concatCalls <= 1
    /\ ffmpegRuns = 0 <=> result = NoResult
    /\ concatCalls = 0 => ~listFile.exists
    /\ (concatCalls = 1 /\ pc = "done") => ffmpegRuns = 1
    /\ ffmpegRuns = 1 =>
         /\ result.returncode = 0 =>
              /\ final_video = FinalName
              /\ disk[FinalName] # 0
              /\ ~listFile.exists
         /\ result.returncode # 0 =>
              /\ Msg("ffmpeg error", result.stderr) \in console
              /\ NoFinalVideo
              /\ listFile = [exists |-> TRUE, lines |-> clip_paths]
              /\ Len(listFile.lines) = NumClips

C10_Witness ==
  /\ script = "multiclip"
  /\ ffmpegRuns = 1
  /\ result.returncode = 1
  /\ listFile.exists

\* a run hit a failure that is neither a partial clip set nor the edit fallback:
\* the video operation of a single-clip script finished as failed, or ffmpeg
\* returned non-zero
FatalFailure ==
  \/ script \in {"generate_video", "advanced", "video_v2"} /\ opState[1] = "DONE_FAILURE"
  \/ script = "multiclip" /\ ffmpegRuns > 0 /\ result.returncode # 0

\* C11: a run that hit a failed video operation in a single-clip script, or a
\* non-zero exit of ffmpeg, never ends with exit status 0: once it has
\* terminated its exit status is non-zero.
C11_FailuresExitNonZero ==
  (Terminated /\ FatalFailure) => exitStatus # 0

\* clips that were requested and have no file on disk
MissingClips == {i \in 1..NumClips : clipRequests[i].sent /\ disk[ClipName[i]] = 0}
\* clips whose request raised: sent, and no operation was ever accepted for it
RaisedClips == {i \in 1..NumClips : clipRequests[i].sent /\ opState[i] = "NONE"}

\* C12 as stated: whenever a clip of the multi-clip workflow has not produced an
\* artifact, the finished run was not aborted, requested every later clip and
\* ended with its summary, the concatenation skipped with the warning.
C12_AsStated ==
  (script = "multiclip" /\ Terminated) =>
    \A i \in MissingClips :
      /\ pc = "done"
      /\ \A j \in (i + 1)..NumClips : clipRequests[j].sent
      /\ PartialWarning
      /\ concatCalls = 0

\* C12 amended: a clip whose operation finishes without a saved video does not
\* end the run: the step that handles it goes on to the next clip, or after
\* the last clip to the concatenation decision; every run that gets there has
\* requested every clip, and if a clip is missing it ends with exit status 0,
\* the warning and no concatenation.  A run is aborted after a clip finished
\* only by a later request that raised or inside concatenate_clips.
C12_PartialNonFatal ==
  /\ [](script = "multiclip" =>
          /\ pc \in {"mc_concat", "done"} => \A j \in 1..NumClips : clipRequests[j].sent
          /\ (pc = "done" /\ MissingClips # {}) =>
               (PartialWarning /\ concatCalls = 0 /\ ffmpegRuns = 0 /\ exitStatus = 0)
          /\ (pc = "exited" /\ \E i \in 1..NumClips : opState[i] \in DoneStates) =>
               (RaisedClips # {} \/ concatCalls > 0))
  /\ [][(script = "multiclip" /\ pc = "poll" /\ operation.done /\ pc' \notin {"poll", "get"}
          /\ clip_paths' = clip_paths) =>
           /\ exitStatus' = -1
           /\ IF cur < NumClips
                THEN pc' = "mc_clips" /\ cur' = cur + 1
                ELSE pc' = "mc_concat"]_vars

\* the first clip failed, the other two were still requested and written, and
\* the run ended with the warning
C12_Witness ==
  /\ script = "multiclip"
  /\ pc = "done"
  /\ opState[1] = "DONE_FAILURE"
  /\ MissingClips = {1}
  /\ clipRequests[NumClips].sent
  /\ PartialWarning

\* positions of a request in the log of the run
RequestsOf(api, item) == {r \in 1..Len(requests) : requests[r] = Request(api, item)}
\* the except branch of the variation step was entered
EditRaised == Msg("ERROR with subject reference", "") \in console

\* C13: in the advanced workflow an edit_image call that raises is followed by
\* exactly one text-only generate_images request, issued right after it; when
\* that request yields an image the run goes on to the video step, whose
\* request carries this image as last frame (and the base image as first
\* frame); when it yields none the run ends with exit status 1.
C13_FallbackOnce ==
  (script = "advanced" /\ EditRaised) =>
    /\ Cardinality(RequestsOf("generate_images", 2)) = 1
    /\ Cardinality(RequestsOf("edit_image", 2)) = 1
    /\ \A r \in RequestsOf("generate_images", 2) :
         r > 1 /\ requests[r - 1] = Request("edit_image", 2)
    /\ IF disk[Step2Name] # 0
         THEN /\ variation_image = Step2Name
              /\ pc \in {"adv_step3", "poll", "get", "done"}
              /\ pc # "adv_step3" =>
                   /\ RequestsOf("generate_videos", 3) # {}
                   /\ clipRequests[1].sent
                   /\ clipRequests[1].first = [name |-> Step1Name, data |-> disk[Step1Name]]
                   /\ clipRequests[1].last = [name |-> Step2Name, data |-> disk[Step2Name]]
         ELSE /\ pc = "exited"
              /\ exitStatus = 1
              /\ variation_image = None
              /\ RequestsOf("generate_videos", 3) = {}

\* the edit raised, the fallback image differs from the base image, and the
\* video request was sent
C13_Witness ==
  /\ script = "advanced"
  /\ EditRaised
  /\ clipRequests[1].sent
  /\ clipRequests[1].last.data # clipRequests[1].first.data
  /\ pc = "done"

\* C14: in the multi-clip workflow every keyframe and every clip causes at most
\* one generation request, whatever the answer (image, no image, finished or
\* failed operation, raised call): nothing is retried, and the requests are
\* sent in definition order.
C14_NoRetry ==
  script = "multiclip" =>
    /\ \A i \in 1..NumKeyframes : Cardinality(RequestsOf("generate_content", i)) <= 1
    /\ \A i \in 1..NumClips : Cardinality(RequestsOf("generate_videos", i)) <= 1
    /\ \A i \in 1..NumKeyframes :
         kfRequests[i].sent <=> RequestsOf("generate_content", i) # {}
    /\ \A i \in 1..NumClips :
         clipRequests[i].sent <=> RequestsOf("generate_videos", i) # {}
    /\ Len(requests) <= NumKeyframes + NumClips
    /\ \A r \in 1..Len(requests) :
         requests[r] = IF r <= NumKeyframes
                         THEN Request("generate_content", r)
                         ELSE Request("generate_videos", r - NumKeyframes)

\* the first clip failed, the second finished without a video, and the run
\* still sent one request per keyframe and clip
C14_Witness ==
  /\ script = "multiclip"
  /\ pc = "done"
  /\ opState[1] = "DONE_FAILURE"
  /\ MissingClips = {1, 2}
  /\ Len(requests) = NumKeyframes + NumClips

\* C15: no step of any script deletes or overwrites a file that is on disk:
\* whatever a step does (including a failed request, a failed operation, an
\* abort or a failed concatenation), every file keeps its content, so the
\* files on disk only grow; the recorded keyframe paths and clip paths are
\* never taken back either.
C15_NoRollback ==
  [][/\ \A f \in FileNames : disk[f] # 0 => disk'[f] = disk[f]
     /\ \A i \in 1..NumKeyframes : kfPath[i] # None => kfPath'[i] = kfPath[i]
     /\ Len(clip_paths') >= Len(clip_paths)
     /\ SubSeq(clip_paths', 1, Len(clip_paths)) = clip_paths]_vars

\* the run was aborted by the third clip request after the keyframes and the
\* first clip had been written: they are still there
C15_Witness ==
  /\ script = "multiclip"
  /\ pc = "exited"
  /\ RaisedClips = {NumClips}
  /\ \A i \in 1..NumKeyframes : disk[KfName[i]] # 0
  /\ disk[ClipName[1]] # 0
  /\ opState[2] = "DONE_FAILURE"

\* the run is in the poll loop of an operation the service never reports done
Stuck == pc \in {"poll", "get"} /\ svcK = Never

\* C16: the poll loop has no maximum poll count and no timeout.  Once the run
\* polls an operation that the service never reports done it stays in that
\* loop for ever: it sleeps and queries again and again, sends no further
\* request, reaches no later step and never terminates.  Conversely every run
\* in which no operation is stuck terminates, and an operation that was
\* submitted and is not finished is the one being polled, so that it reaches
\* DONE_SUCCESS or DONE_FAILURE before the run goes on or ends.
C16_NoTimeout ==
  /\ [][Stuck => (Stuck' /\ exitStatus' = -1 /\ cur' = cur /\ requests' = requests
                  /\ disk' = disk /\ console' = console)]_vars
  /\ [](Stuck => (~operation.done /\ opState[cur] \in {"SUBMITTED", "POLLING"}))
  /\ [](Outstanding # {} => (pc \in {"poll", "get"} /\ Outstanding = {cur}))
  /\ []<>(~Stuck \/ pc = "get")
  /\ []<>(~Stuck \/ pc = "poll")
  /\ <>(Terminated \/ Stuck)

\* the second clip is never done: the run has polled it more often than any
\* finishing operation is polled, and is still polling
C16_Witness ==
  /\ script = "multiclip"
  /\ Stuck
  /\ cur = 2
  /\ queries = PollCap
  /\ sleeps = PollCap

\* VERTEX_AI_PROJECT_ID or VERTEX_AI_SERVICE_ACCOUNT_JSON is not set, or a file
\* the script needs as input is not on disk
MissingConfiguration ==
  \/ ~projectSet
  \/ saPath = "unset"
  \/ \E f \in InputFiles(script) : disk[f] = 0

\* C17: in every script a missing project id, a missing credential path or a
\* missing input file ends the run with a console message and exit status 1
\* before any generation request is sent.
C17_MissingConfigurationExits ==
  MissingConfiguration =>
    /\ requests = <<>>
    /\ \A i \in OpIds : opState[i] = "NONE"
    /\ pc \in {"start", "exited"}
    /\ pc = "exited" => (exitStatus = 1 /\ console # {})

\* the operation finished with a video that carries inline bytes or a uri
DeliveredVideo(op) ==
  /\ op.done
  /\ op.response
  /\ Len(op.videos) > 0
  /\ (op.videos[1].video_bytes.kind # "none" \/ op.videos[1].uri # "")

\* C18: when a video operation finishes with a video, in either delivery mode
\* (inline bytes or remote uri), the step that handles it returns an artifact:
\* the multi-clip workflow records a path for the clip, the advanced workflow
\* gets a file path or the uri; the clip is not counted as missing.
C18_SuccessReturnsArtifact ==
  [][(pc = "poll" /\ DeliveredVideo(operation) /\ pc' \notin {"poll", "get"}) =>
       /\ script = "multiclip" => clip_paths' # clip_paths
       /\ script = "advanced" => video' # None]_vars

\* keyframe i as the service generated it, under the name it is saved as
KfGenerated(i) == [name |-> KfName[i], data |-> kfBytes[i]]

\* C19: what is written under a keyframe's or clip's name is read back
\* unchanged: the file of a saved keyframe holds the bytes the service
\* generated for it, the continuity reference sent with keyframe i+1 and the
\* first and last frames sent with clips i and i-1 are those bytes, and a clip
\* file holds the (decoded) bytes of its operation's video.
C19_RoundTrip ==
  /\ [](script = "multiclip" =>
          /\ \A i \in 1..NumKeyframes :
               kfPath[i] # None => (kfBytes[i] # 0 /\ disk[kfPath[i]] = kfBytes[i])
          /\ \A i \in 2..NumKeyframes :
               kfRequests[i].sent => kfRequests[i].refs = <<KfGenerated(i - 1)>>
          /\ \A i \in 1..NumClips :
               clipRequests[i].sent =>
                 /\ clipRequests[i].first = KfGenerated(i)
                 /\ clipRequests[i].last = KfGenerated(i + 1))
  /\ [][(script = "multiclip" /\ pc = "poll" /\ clip_paths' # clip_paths) =>
          /\ clip_paths' = Append(clip_paths, ClipName[cur])
          /\ disk'[ClipName[cur]] = operation.videos[1].video_bytes.data
          /\ disk'[ClipName[cur]] # 0]_vars

\* every clip was requested, the keyframes differ in content and use every
\* content there is, and the first clip was written
C19_Witness ==
  /\ script = "multiclip"
  /\ \A i \in 1..NumClips : clipRequests[i].sent
  /\ {kfBytes[i] : i \in 1..NumKeyframes} = Data
  /\ kfBytes[1] # kfBytes[2]
  /\ disk[ClipName[1]] = MaxData

\* C20: whenever concatenate_clips is called, the manifest it writes has
\* exactly one line per defined clip, in definition order: line j names the
\* file of clip j, which is on disk; no clip is missing, listed twice or out of
\* place.  Without a call no manifest is written.
C20_ManifestOrdered ==
  script = "multiclip" =>
    /\ concatCalls = 0 => (manifest = <<>> /\ ~listFile.exists)
    /\ concatCalls > 0 =>
         /\ Len(manifest) = NumClips
         /\ \A j \in 1..NumClips :
              /\ manifest[j] = ClipName[j]
              /\ manifest[j] = clip_paths[j]
              /\ disk[manifest[j]] # 0
         /\ listFile.exists => listFile.lines = manifest

\* ffmpeg returned 0 on a manifest that has been removed since
C20_Witness ==
  /\ script = "multiclip"
  /\ concatCalls = 1
  /\ result.returncode = 0
  /\ ~listFile.exists
  /\ Len(manifest) = NumClips
  /\ disk[ClipName[1]] # disk[ClipName[2]]

\* the edit call of the variation step returned without an image
EmptyEdit ==
  /\ script = "advanced"
  /\ base_image # None
  /\ Msg("ERROR: No image generated", "") \in console

\* C21: in the variation step of the advanced workflow the text-only
\* generation request is sent only after an edit call that raised; an edit
\* call that returns no image ends the run with exit status 1: no fallback
\* request and no video request is sent and no variation image is recorded.
C21_FallbackOnlyOnRaise ==
  script = "advanced" =>
    /\ RequestsOf("generate_images", 2) # {} => (EditRaised /\ ~EmptyEdit)
    /\ EmptyEdit =>
         /\ pc = "exited"
         /\ exitStatus = 1
         /\ ~EditRaised
         /\ requests = <<Request("generate_images", 1), Request("edit_image", 2)>>
         /\ variation_image = None
         /\ disk[Step2Name] = 0
         /\ ~clipRequests[1].sent

\* the base image was saved and the edit call came back empty
C21_Witness ==
  /\ EmptyEdit
  /\ disk[Step1Name] # 0
  /\ Len(requests) = 2
  /\ pc = "exited"

\* the multi-clip workflow is past its keyframe loop
ClipPhase == script = "multiclip" /\ pc \in {"mc_clips", "poll", "get", "mc_concat", "done"}

\* C22: in the multi-clip workflow the clip loop is entered, and a clip request
\* is sent, only when every keyframe has a recorded path whose file is on
\* disk: generate_clip never gets an absent first or last frame, so no run
\* fails on a missing frame.
C22_KeyframesBeforeClips ==
  script = "multiclip" =>
    /\ (ClipPhase \/ \E i \in 1..NumClips : clipRequests[i].sent) =>
         \A j \in 1..NumKeyframes : kfPath[j] = KfName[j] /\ disk[KfName[j]] # 0
    /\ \A i \in 1..NumClips :
         clipRequests[i].sent =>
           /\ clipRequests[i].first.name # None /\ clipRequests[i].first.data # 0
           /\ clipRequests[i].last.name # None /\ clipRequests[i].last.data # 0
    /\ Msg("Traceback: AttributeError", "") \notin console
    /\ Msg("Traceback: FileNotFoundError", "") \in console => requests = <<>>
    /\ (\E j \in 1..NumKeyframes : kfRequests[j].sent /\ kfPath[j] = None) =>
         (pc = "exited" /\ \A i \in 1..NumClips : ~clipRequests[i].sent)

\* the first clip has just been requested and is the only one so far
C22_Witness ==
  /\ script = "multiclip"
  /\ pc = "poll"
  /\ clipRequests[1].sent
  /\ ~clipRequests[2].sent
  /\ Len(requests) = NumKeyframes + 1

AllModelsFailed == Msg("All models failed", "") \in console

\* what the video-only script does after a model gave no video: the next model
\* of the list, or the end of the list
TriesNextModel ==
  IF cur < NumModels
    THEN pc' = "vo_try" /\ cur' = cur + 1 /\ ~AllModelsFailed'
    ELSE pc' = "done" /\ AllModelsFailed'

\* C23: the video-only script requests its candidate models in list order,
\* each at most once.  An operation that finishes with a video (inline bytes
\* or uri) ends the run at once with no further request; a request that raises
\* or an operation that finishes without a video leads to the next model; and
\* "All models failed" is printed only when every model was requested and
\* none gave a video.
C23_ModelsInOrder ==
  /\ [](script = "video_only" =>
          /\ Len(requests) <= NumModels
          /\ \A r \in 1..Len(requests) : requests[r] = Request("generate_videos", r)
          /\ AllModelsFailed =>
               /\ pc = "done"
               /\ Len(requests) = NumModels
               /\ disk[Step3Name] = 0
               /\ Outstanding = {}
          /\ (pc = "done" /\ ~AllModelsFailed) =>
               (Len(requests) = cur /\ opState[cur] = "DONE_SUCCESS"))
  /\ [][(script = "video_only" /\ pc = "poll" /\ operation.done /\ pc' \notin {"poll", "get"}) =>
          IF DeliveredVideo(operation)
            THEN pc' = "done" /\ requests' = requests /\ ~AllModelsFailed' /\ exitStatus' = 0
            ELSE requests' = requests /\ TriesNextModel]_vars
  /\ [][(script = "video_only" /\ requests' # requests) =>
          /\ pc = "vo_try"
          /\ requests' = Append(requests, Request("generate_videos", cur))
          /\ pc' # "poll" => TriesNextModel]_vars

\* the first model raised, the second finished as failed, the third gave a
\* video that was saved
C23_Witness ==
  /\ script = "video_only"
  /\ pc = "done"
  /\ opState[1] = "NONE"
  /\ opState[2] = "DONE_FAILURE"
  /\ opState[3] = "DONE_SUCCESS"
  /\ disk[Step3Name] # 0
  /\ ~AllModelsFailed

====
